---- MODULE Spec2Model ----
(***************************************************************************)
(* State-machine model of the s1-callgen SIP traffic generator:            *)
(*   - sip.Client        (internal/sip/client.go, src/unnamed/part_001)    *)
(*   - generator.Generator, the enhanced generator                         *)
(*                        (enhanced_generator.go in src/unnamed/part_000)  *)
(*                                                                         *)
(* Time is counted in ticks of the shaper's 100 ms ticker.  Rates are      *)
(* fixed-point numbers: a CPS value v stands for v / Milli calls per       *)
(* second, and the token accumulator counts in units of 1 / OneCall call.  *)
(* Goroutines are interleaved at every access to shared state (atomics,    *)
(* channel operations, socket writes, the Call-ID index).                  *)
(***************************************************************************)
EXTENDS Integers, Sequences, FiniteSets

\* ------------------------------------------------------------------ bounds
\* Number of makeCall goroutines the model lets the shaper spawn.
MaxCalls == 2
\* Number of ticker firings the model follows.
MaxTicks == 3
\* Number of datagrams the peer sends back.
MaxResp == 1
\* Largest number of RTP ports the pool of a constructed client holds.
NumPorts == 2
\* Largest concurrency ceiling and floor the configuration is drawn from.
MaxCfgConcurrent == 2
MaxCfgMinConcurrent == 1
\* ramp_down_time of the configuration, in seconds.
CfgRampDownTime == 10
\* Start calls and Stop calls the control surface and main make.
MaxStarts == 2
\* Clock events the shaper specification follows: a ramp-up of 1 s and beyond.
MaxShaperTicks == 11
MaxStops == 2
\* Datagrams the peer sends back in the response specification.
MaxDialogResp == 2
\* Largest acd_min and acd_max, in seconds, the duration specification draws.
MaxAcd == 12

\* ------------------------------------------------------- program constants
RtpPortLo == 10000
RtpPortHi == 20000
RtpPoolCap == 1000
TickMs == 100
RampDownStepS == 10
DefaultASR == 70
DefaultACDMin == 30
DefaultACDMax == 180
MinAdjustCalls == 100
AsrTolerance == 5

Milli == 10 * 10 * 10
TicksPerSec == Milli \div TickMs
OneCall == Milli * TicksPerSec
RampDownStepTicks == RampDownStepS * TicksPerSec

Calls == 1 .. MaxCalls
NoCall == 0
CallIDs == 0 .. MaxCalls
NoTag == 0
\* To tags the peer puts in its responses; local tags are LocalTagBase + i.
TagValues == {1}
LocalTagBase == 10
TornTag == -1
StatusCodes == {100, 180, 200, 486}

\* The even ports i = RtpPortLo, RtpPortLo + 2, ... below hi, in loop order.
RECURSIVE EvenPortsFrom(_, _)
EvenPortsFrom(i, hi) ==
    IF i < hi THEN <<i>> \o EvenPortsFrom(i + 2, hi) ELSE <<>>

\* The pools of a constructed client in the dialog specification: the first n
\* even ports, for a pool smaller than and as large as the number of dialogs.
PoolPorts(n) == EvenPortsFrom(RtpPortLo, RtpPortLo + 2 * n)

Range(s) == {s[k] : k \in DOMAIN s}

\* ------------------------------------------------------------------- state
VARIABLES
    \* sip.NewClient
    ncPc,            \* "fill" | "returned"
    ncI,             \* loop variable i of NewClient
    \* sip.Client
    rtpPorts,        \* the buffered channel c.rtpPorts, oldest first
    conn,            \* "nil" | "open"
    activeCalls,     \* c.activeCalls: Call-ID -> dialog record (NoCall = absent)
    \* generator.Generator
    cfg,             \* *models.Config
    stats,           \* g.stats counters
    currentCPS, targetCPS, isRamping, rampStartTime,
    genPc,           \* generateCalls: "off" | "loop" | "rampdown"
    rampStep,        \* loop variable i of startRampDown
    lastCallTime, callAccumulator,
    \* environment
    now,             \* wall clock in ticks
    nano,            \* time.Now().UnixNano() as last read by generateCallID
    inWindow,        \* whether the wall-clock hour is inside the schedule window
    respCount,       \* datagrams the peer has sent
    \* goroutines
    call,            \* per makeCall goroutine: pc, locals, its models.Call
    rxPc, rxCall, rxResp,   \* listenResponses / handleResponse
    \* lifecycle
    stopChan,        \* g.stopChan: "open" | "closed"
    wg,              \* counter of g.wg
    tasks,           \* running long-lived goroutines, per kind
    sockets,         \* UDP sockets dialled so far
    startCalls,      \* Start calls made so far
    stopPc,          \* the Stop call in progress: "none" | "wait" | "returned"
    stopCalls,       \* Stop calls made so far, per caller
    crashed,         \* the process died of an unrecovered panic
    \* autopilot
    autopilotEnabled,   \* config.Autopilot.Enabled, flipped by the control surface
    apPc,            \* runAutopilot: "none" | "entry" | "loop" | "exited"
    \* model parameters, fixed by the initial state
    tickBudget,      \* clock events the behaviour follows
    stopBudget,      \* Stop calls the behaviour follows, per caller
    respBudget,      \* datagrams the peer sends back in the behaviour
    \* generator.Generator, continued
    numberPairs,     \* len(g.numberPairs), fixed by LoadNumbersFromCSV before Start
    hourlyStats,     \* the map g.hourlyStats points to: hour -> bucket
    snapshot,        \* the *models.Statistics a GetStatistics call returned
    snapshotSeen,    \* history: all that was reachable from it when it was returned
    duration,        \* makeCall's sampled call duration: "none" | "sampled" | "panic"
    \* the mutexes g.stats.mu and g.mu
    lockPc,          \* per locking task: the function it runs and its position in it
    held,            \* per locking task: the locks it holds, in acquisition order
    \* history (not program state)
    lastTick,       \* what the last tick-loop iteration did, at which rate, and when
    closedSeen,      \* tick at which the closed window was first observed, or -1
    stopBusy,        \* whether a dialog was in flight when Stop closed the channel
    \* history (not program state)
    sent,            \* per dialog: the messages it handed to the socket
    hist,            \* per dialog: its counter and pool operations, its outcome
    rcvd             \* per Call-ID: the tags of the 200 responses read so far

clientVars == <<rtpPorts, conn, activeCalls>>
ncVars == <<ncPc, ncI>>
shaperVars == <<currentCPS, targetCPS, isRamping, rampStartTime, genPc, rampStep,
                lastCallTime, callAccumulator>>
envVars == <<now, nano, inWindow, respCount>>
rxVars == <<rxPc, rxCall, rxResp>>
lifeVars == <<stopChan, tasks, sockets, startCalls, stopPc, stopCalls, crashed>>
apVars == <<autopilotEnabled, apPc>>
paramVars == <<tickBudget, stopBudget, respBudget>>
poolVars == <<numberPairs>>
statVars == <<hourlyStats, snapshot, snapshotSeen>>
planVars == <<duration>>
lockVars == <<lockPc, held>>
tickHist == <<lastTick, closedSeen, stopBusy>>
vars == <<ncPc, ncI, rtpPorts, conn, activeCalls, cfg, stats, currentCPS, targetCPS,
          isRamping, rampStartTime, genPc, rampStep, lastCallTime, callAccumulator,
          now, nano, inWindow, respCount, call, rxPc, rxCall, rxResp, sent, hist,
          rcvd, stopChan, wg, tasks, sockets, startCalls, stopPc, stopCalls, crashed,
          autopilotEnabled, apPc, tickBudget, stopBudget, lastTick, closedSeen,
          stopBusy, respBudget, numberPairs, hourlyStats, snapshot, snapshotSeen,
          duration, lockPc, held>>

\* A makeCall goroutine that has not been spawned, with a zero models.Call.
IdleCall ==
    [pc |-> "idle", shouldAnswer |-> FALSE, err |-> FALSE, rtpPort |-> 0,
     SIPCallID |-> 0, LocalTag |-> NoTag, RemoteTag |-> NoTag,
     Status |-> "NONE"]

IdleHist ==
    [counted |-> 0, uncounted |-> 0, taken |-> 0, returned |-> 0,
     outcome |-> "none", byeSaw2xx |-> {}, rejected |-> {}]

\* The configurations the model is checked for.
Configs ==
    [MaxConcurrent : 1 .. MaxCfgConcurrent,
     MinConcurrent : 0 .. MaxCfgMinConcurrent,
     CallsPerSecond : {10 * Milli},
     ASR : {DefaultASR},
     ACDMin : {DefaultACDMin},
     ACDMax : {DefaultACDMax},
     RampUpTime : {0},
     RampDownTime : {CfgRampDownTime},
     ScheduleEnabled : BOOLEAN,
     TargetASR : {DefaultASR},
     AdjustmentInterval : {0},
     MaxCPSAdjustment : {0}]

\* No long-lived goroutine runs.
NoTasks == [tick |-> 0, reporter |-> 0, rollup |-> 0, controller |-> 0, receive |-> 0]

NotSeen == 0 - 1

NoStops == [main |-> 0, web |-> 0]

\* Hours of the day the roll-up is followed for, and the empty hourlyStats map.
Hours == {0, 1}
NoBucket == [Hour |-> NotSeen, TotalCalls |-> 0, SuccessfulCalls |-> 0,
             FailedCalls |-> 0, PeakConcurrent |-> 0]
NoBuckets == [h \in Hours |-> NoBucket]
NoSnapshot == [taken |-> FALSE]
\* The value a snapshot field holds when it is the pointer g.hourlyStats.
SharedMap == "g.hourlyStats"

\* makeCall has not sampled a call duration.
NoDuration == [pc |-> "none", seconds |-> 0]

\* The goroutines that take g.stats.mu or g.mu: the controller
\* (adjustParametersAutomatically), an observer (GetStatistics, from the
\* reporter or the web handler), the roll-up (collectHourlyStats), a number
\* load (LoadNumbersFromCSV / LoadTestNumbers) and two makeCall goroutines.
LockTasks == {"controller", "observer", "rollup", "loader", "call1", "call2"}
\* A task that is in none of the locking functions.
NotLocking == [prog |-> <<>>, k |-> 0]

\* State after NewGenerator (with a constructed client), before Start.
InitGenerator ==
    /\ stats = [TotalCalls |-> 0, SuccessfulCalls |-> 0, FailedCalls |-> 0,
                ActiveCalls |-> 0]
    /\ currentCPS = 0
    /\ targetCPS = cfg.CallsPerSecond
    /\ isRamping = FALSE
    /\ rampStartTime = 0
    /\ genPc = "off"
    /\ rampStep = 0
    /\ lastCallTime = 0
    /\ callAccumulator = 0
    /\ now = 0
    /\ nano = 0
    /\ inWindow \in (IF cfg.ScheduleEnabled THEN BOOLEAN ELSE {TRUE})
    /\ respCount = 0
    /\ call = [i \in Calls |-> IdleCall]
    /\ rxPc = "off"
    /\ rxCall = NoCall
    /\ rxResp = [code |-> 0, tag |-> NoTag]
    /\ sent = [i \in Calls |-> <<>>]
    /\ hist = [i \in Calls |-> IdleHist]
    /\ rcvd = [c \in CallIDs |-> {}]
    /\ conn = "nil"
    /\ activeCalls = [c \in CallIDs |-> NoCall]
    /\ stopChan = "open"
    /\ wg = 0
    /\ tasks = NoTasks
    /\ sockets = 0
    /\ startCalls = 0
    /\ stopPc = "none"
    /\ stopCalls = NoStops
    /\ stopBusy = FALSE
    /\ crashed = FALSE
    /\ apPc = "none"
    /\ lastTick = [kind |-> "none", cps |-> 0, at |-> 0]
    /\ closedSeen = NotSeen
    /\ hourlyStats = NoBuckets
    /\ snapshot = NoSnapshot
    /\ snapshotSeen = NoSnapshot
    /\ duration = NoDuration
    /\ lockPc = [t \in LockTasks |-> NotLocking]
    /\ held = [t \in LockTasks |-> <<>>]

\* The engine as main builds it from a configuration with the autopilot off,
\* followed for MaxTicks clock events and until a Stop is issued.
Init ==
    /\ autopilotEnabled = FALSE
    /\ tickBudget = MaxTicks
    /\ stopBudget = NoStops
    /\ respBudget = MaxResp
    /\ numberPairs = 1
    /\ cfg \in Configs
    /\ ncPc = "returned"
    /\ \E n \in 1 .. NumPorts :
          /\ ncI = RtpPortLo + 2 * n
          /\ rtpPorts = PoolPorts(n)
    /\ InitGenerator

\* ------------------------------------------------------------ sip.NewClient
\* State at entry of NewClient: the channel was just made, nothing is in it.
InitNewClient ==
    /\ autopilotEnabled = FALSE
    /\ tickBudget = MaxTicks
    /\ stopBudget = NoStops
    /\ respBudget = MaxResp
    /\ numberPairs = 1
    /\ cfg \in Configs
    /\ ncPc = "fill"
    /\ ncI = RtpPortLo
    /\ rtpPorts = <<>>
    /\ InitGenerator

\* One step of NewClient: a loop iteration `rtpPorts <- i` (which needs room in
\* the channel: nothing receives from it before NewClient returns), or the return.
NewClient ==
    /\ ~crashed
    /\ ncPc = "fill"
    /\ IF ncI < RtpPortHi
       THEN /\ Len(rtpPorts) < RtpPoolCap
            /\ rtpPorts' = Append(rtpPorts, ncI)
            /\ ncI' = ncI + 2
            /\ ncPc' = ncPc
       ELSE /\ ncPc' = "returned"
            /\ UNCHANGED <<rtpPorts, ncI>>
    /\ UNCHANGED <<conn, activeCalls, cfg, stats, shaperVars, envVars, call, rxVars,
                   sent, hist, rcvd, wg, lifeVars, apVars, paramVars, poolVars, statVars, planVars, lockVars, tickHist>>

SpecNewClient == InitNewClient /\ [][NewClient]_vars

\* ---------------------------------------------------------- Generator.Start
startRampUp(t) ==
    /\ isRamping' = TRUE
    /\ rampStartTime' = t
    /\ currentCPS' = 0

\* The goroutines one call of Start adds: the receive loop of Connect, the tick
\* loop, the reporter, the controller when the autopilot is enabled, the roll-up.
StartedTasks ==
    [tick |-> 1, reporter |-> 1, rollup |-> 1,
     controller |-> IF autopilotEnabled THEN 1 ELSE 0, receive |-> 1]

\* All of them but the receive loop are registered with g.wg.
WgAdds(t) == t.tick + t.reporter + t.rollup + t.controller

AddTasks(a, b) ==
    [tick |-> a.tick + b.tick, reporter |-> a.reporter + b.reporter,
     rollup |-> a.rollup + b.rollup, controller |-> a.controller + b.controller,
     receive |-> a.receive + b.receive]

\* Start on an engine that has no tick loop yet: Connect (dial, start the
\* receive loop), startRampUp, then the tick loop with its locals lastCallTime
\* and callAccumulator, and the other long-lived goroutines.
Start ==
    /\ ~crashed
    /\ ncPc = "returned"
    /\ genPc = "off"
    /\ conn' = "open"
    /\ sockets' = sockets + 1
    /\ startCalls' = startCalls + 1
    /\ rxPc' = "idle"
    /\ startRampUp(now)
    /\ genPc' = "loop"
    /\ lastCallTime' = now
    /\ callAccumulator' = 0
    /\ tasks' = AddTasks(tasks, StartedTasks)
    /\ wg' = wg + WgAdds(StartedTasks)
    /\ apPc' = IF autopilotEnabled THEN "entry" ELSE apPc
    /\ UNCHANGED <<ncVars, rtpPorts, activeCalls, cfg, stats, targetCPS, rampStep,
                   envVars, call, rxCall, rxResp, sent, hist, rcvd, stopChan, stopPc,
                   stopCalls, crashed, autopilotEnabled, paramVars, poolVars, statVars, planVars, lockVars, tickHist>>

\* ------------------------------------------------------- Generator.makeCall
\* rand.Float64()*100 < ASR, with rand.Float64() in [0, 1).
AnswerOutcomes(asr) == {b \in BOOLEAN : (b => asr > 0) /\ (~b => asr < 100)}

dialogBase ==
    <<ncVars, cfg, shaperVars, now, inWindow, respCount, rxVars, rcvd, lifeVars,
      apVars, paramVars, poolVars, statVars, planVars, lockVars, tickHist>>
dialogFrame == <<dialogBase, wg>>

MakeCallNoPair_CountsAttempt(i) ==
    /\ ~crashed
    /\ call[i].pc = "start"
    /\ numberPairs = 0
    /\ stats' = [stats EXCEPT !.TotalCalls = @ + 1]
    /\ call' = [call EXCEPT ![i].pc = "done"]
    /\ wg' = wg - 1
    /\ UNCHANGED <<dialogBase, clientVars, nano, sent, hist>>

\* len(g.numberPairs) == 0 under g.mu.RLock: makeCall returns at once, and its
\* deferred g.wg.Done() runs.
MakeCallNoPair(i) ==
    /\ ~crashed
    /\ call[i].pc = "start"
    /\ numberPairs = 0
    /\ call' = [call EXCEPT ![i].pc = "done"]
    /\ wg' = wg - 1
    /\ UNCHANGED <<dialogBase, clientVars, stats, nano, sent, hist>>

\* A pair is picked; draw shouldAnswer, then atomic.AddInt64(&TotalCalls, 1).
MakeCallAddTotal(i) ==
    /\ ~crashed
    /\ call[i].pc = "start"
    /\ numberPairs > 0
    /\ \E ans \in AnswerOutcomes(cfg.ASR) :
          call' = [call EXCEPT ![i].pc = "addActive", ![i].shouldAnswer = ans]
    /\ stats' = [stats EXCEPT !.TotalCalls = @ + 1]
    /\ UNCHANGED <<dialogFrame, clientVars, nano, sent, hist>>

\* time.Now().UnixNano() read by generateCallID: the clock may not have moved
\* since the previous read.
ClockReads == IF nano = 0 THEN {1} ELSE {nano, nano + 1}

\* atomic.AddInt64(&ActiveCalls, 1); an answered call then enters
\* Client.MakeCall, which creates its models.Call: the Call-ID from the clock,
\* the local tag from rand.Int63() (draws are taken to differ between dialogs).
MakeCallAddActive(i) ==
    /\ ~crashed
    /\ call[i].pc = "addActive"
    /\ stats' = [stats EXCEPT !.ActiveCalls = @ + 1]
    /\ hist' = [hist EXCEPT ![i].counted = @ + 1]
    /\ IF call[i].shouldAnswer
       THEN \E t \in ClockReads :
               /\ nano' = t
               /\ call' = [call EXCEPT ![i].pc = "getPort",
                                       ![i].SIPCallID = t,
                                       ![i].LocalTag = LocalTagBase + i,
                                       ![i].Status = "INITIATING"]
       ELSE /\ call' = [call EXCEPT ![i].pc = "rejected"]
            /\ UNCHANGED nano
    /\ UNCHANGED <<dialogFrame, clientVars, sent>>

MakeCallRejected_CountsAnswered(i) ==
    /\ ~crashed
    /\ call[i].pc = "rejected"
    /\ stats' = [stats EXCEPT !.SuccessfulCalls = @ + 1]
    /\ hist' = [hist EXCEPT ![i].outcome = "answered"]
    /\ call' = [call EXCEPT ![i].pc = "decActive"]
    /\ UNCHANGED <<dialogFrame, clientVars, nano, sent>>

\* The rejected branch: sleep, then atomic.AddInt64(&FailedCalls, 1).
MakeCallRejected(i) ==
    /\ ~crashed
    /\ call[i].pc = "rejected"
    /\ stats' = [stats EXCEPT !.FailedCalls = @ + 1]
    /\ hist' = [hist EXCEPT ![i].outcome = "failed"]
    /\ call' = [call EXCEPT ![i].pc = "decActive"]
    /\ UNCHANGED <<dialogFrame, clientVars, nano, sent>>

MakeCallAccount_DropsFailure(i) ==
    /\ ~crashed
    /\ call[i].pc = "account"
    /\ IF call[i].err
       THEN UNCHANGED <<stats, hist>>
       ELSE /\ stats' = [stats EXCEPT !.SuccessfulCalls = @ + 1]
            /\ hist' = [hist EXCEPT ![i].outcome = "answered"]
    /\ call' = [call EXCEPT ![i].pc = "decActive"]
    /\ UNCHANGED <<dialogFrame, clientVars, nano, sent>>

\* After Client.MakeCall returned: err == nil counts SuccessfulCalls, an error
\* counts FailedCalls.
MakeCallAccount(i) ==
    /\ ~crashed
    /\ call[i].pc = "account"
    /\ IF call[i].err
       THEN /\ stats' = [stats EXCEPT !.FailedCalls = @ + 1]
            /\ hist' = [hist EXCEPT ![i].outcome = "failed"]
       ELSE /\ stats' = [stats EXCEPT !.SuccessfulCalls = @ + 1]
            /\ hist' = [hist EXCEPT ![i].outcome = "answered"]
    /\ call' = [call EXCEPT ![i].pc = "decActive"]
    /\ UNCHANGED <<dialogFrame, clientVars, nano, sent>>

MakeCallDecActive_OnlyOnSuccess(i) ==
    /\ ~crashed
    /\ call[i].pc = "decActive"
    /\ IF hist[i].outcome = "answered"
       THEN /\ stats' = [stats EXCEPT !.ActiveCalls = @ - 1]
            /\ hist' = [hist EXCEPT ![i].uncounted = @ + 1]
       ELSE UNCHANGED <<stats, hist>>
    /\ call' = [call EXCEPT ![i].pc = "done"]
    /\ wg' = wg - 1
    /\ UNCHANGED <<dialogBase, clientVars, nano, sent>>

\* atomic.AddInt64(&ActiveCalls, -1), the last statement of makeCall, then the
\* deferred g.wg.Done().
MakeCallDecActive(i) ==
    /\ ~crashed
    /\ call[i].pc = "decActive"
    /\ stats' = [stats EXCEPT !.ActiveCalls = @ - 1]
    /\ hist' = [hist EXCEPT ![i].uncounted = @ + 1]
    /\ call' = [call EXCEPT ![i].pc = "done"]
    /\ wg' = wg - 1
    /\ UNCHANGED <<dialogBase, clientVars, nano, sent>>

\* ---------------------------------------------------------- Client.MakeCall
Msg(kind, c, toTag) ==
    [kind |-> kind, callID |-> c.SIPCallID, from |-> c.LocalTag, to |-> toTag]

\* rtpPort := <-c.rtpPorts (blocks while the channel is empty).
MakeCallTakePort(i) ==
    /\ ~crashed
    /\ call[i].pc = "getPort"
    /\ rtpPorts /= <<>>
    /\ rtpPorts' = Tail(rtpPorts)
    /\ call' = [call EXCEPT ![i].pc = "invite", ![i].rtpPort = Head(rtpPorts)]
    /\ hist' = [hist EXCEPT ![i].taken = @ + 1]
    /\ UNCHANGED <<dialogFrame, conn, activeCalls, stats, nano, sent>>

\* The deferred `c.rtpPorts <- rtpPort`, run when MakeCall returns.
ReleasePort(i) ==
    /\ Len(rtpPorts) < RtpPoolCap
    /\ rtpPorts' = Append(rtpPorts, call[i].rtpPort)
    /\ hist' = [hist EXCEPT ![i].returned = @ + 1]

MakeCallSendInvite_LeaksPortOnError(i) ==
    /\ ~crashed
    /\ call[i].pc = "invite"
    /\ conn = "open"
    /\ \E ok \in BOOLEAN :
          IF ok
          THEN /\ sent' = [sent EXCEPT ![i] = Append(@, Msg("INVITE", call[i], NoTag))]
               /\ call' = [call EXCEPT ![i].pc = "register"]
               /\ UNCHANGED <<rtpPorts, hist>>
          ELSE /\ call' = [call EXCEPT ![i].pc = "account", ![i].err = TRUE]
               /\ UNCHANGED <<rtpPorts, hist, sent>>
    /\ UNCHANGED <<dialogFrame, conn, activeCalls, stats, nano>>

MakeCallSendInvite_RegistersFirst(i) ==
    /\ ~crashed
    /\ call[i].pc = "invite"
    /\ conn = "open"
    /\ activeCalls' = [activeCalls EXCEPT ![call[i].SIPCallID] = i]
    /\ \E ok \in BOOLEAN :
          IF ok
          THEN /\ sent' = [sent EXCEPT ![i] = Append(@, Msg("INVITE", call[i], NoTag))]
               /\ call' = [call EXCEPT ![i].pc = "talk"]
               /\ UNCHANGED <<rtpPorts, hist>>
          ELSE /\ call' = [call EXCEPT ![i].pc = "account", ![i].err = TRUE]
               /\ ReleasePort(i)
               /\ UNCHANGED sent
    /\ UNCHANGED <<dialogFrame, conn, stats, nano>>

\* buildINVITE and sendMessage(invite).  A write error makes MakeCall return it
\* (the deferred port release runs); else the INVITE is on the wire.
MakeCallSendInvite(i) ==
    /\ ~crashed
    /\ call[i].pc = "invite"
    /\ conn = "open"
    /\ \E ok \in BOOLEAN :
          IF ok
          THEN /\ sent' = [sent EXCEPT ![i] = Append(@, Msg("INVITE", call[i], NoTag))]
               /\ call' = [call EXCEPT ![i].pc = "register"]
               /\ UNCHANGED <<rtpPorts, hist>>
          ELSE /\ call' = [call EXCEPT ![i].pc = "account", ![i].err = TRUE]
               /\ ReleasePort(i)
               /\ UNCHANGED sent
    /\ UNCHANGED <<dialogFrame, conn, activeCalls, stats, nano>>

\* c.activeCalls[call.SIPCallID] = call, under c.mu.
MakeCallRegister(i) ==
    /\ ~crashed
    /\ call[i].pc = "register"
    /\ activeCalls' = [activeCalls EXCEPT ![call[i].SIPCallID] = i]
    /\ call' = [call EXCEPT ![i].pc = "talk"]
    /\ UNCHANGED <<dialogFrame, rtpPorts, conn, stats, nano, sent, hist>>

\* What an unsynchronised read of call.RemoteTag returns: the field, or, while
\* handleResponse is about to write it, the old value, the new one or a torn one.
ReadRemoteTag(i) ==
    IF rxPc = "write" /\ rxCall = i /\ rxResp.code = 200
    THEN {call[i].RemoteTag, rxResp.tag, TornTag}
    ELSE {call[i].RemoteTag}

MakeCallSendBye_OnlyWhenAnswered(i) ==
    /\ ~crashed
    /\ call[i].pc = "talk"
    /\ conn = "open"
    /\ IF call[i].Status = "ANSWERED"
       THEN sent' = [sent EXCEPT ![i] = Append(@, Msg("BYE", call[i], call[i].RemoteTag))]
       ELSE UNCHANGED sent
    /\ hist' = [hist EXCEPT ![i].byeSaw2xx = rcvd[call[i].SIPCallID]]
    /\ call' = [call EXCEPT ![i].pc = "finish"]
    /\ UNCHANGED <<dialogFrame, clientVars, stats, nano>>

\* time.Sleep(duration) is over: buildBYE(call) reads the record without a
\* lock, and sendMessage(bye) hands the BYE to the socket; its error is dropped.
MakeCallSendBye(i) ==
    /\ ~crashed
    /\ call[i].pc = "talk"
    /\ conn = "open"
    /\ \E t \in ReadRemoteTag(i) :
          sent' = [sent EXCEPT ![i] = Append(@, Msg("BYE", call[i], t))]
    /\ hist' = [hist EXCEPT ![i].byeSaw2xx = rcvd[call[i].SIPCallID]]
    /\ call' = [call EXCEPT ![i].pc = "finish"]
    /\ UNCHANGED <<dialogFrame, clientVars, stats, nano>>

\* delete(c.activeCalls, call.SIPCallID) under c.mu, then return nil (the
\* deferred port release runs).
MakeCallFinish(i) ==
    /\ ~crashed
    /\ call[i].pc = "finish"
    /\ activeCalls' = [activeCalls EXCEPT ![call[i].SIPCallID] = NoCall]
    /\ ReleasePort(i)
    /\ call' = [call EXCEPT ![i].pc = "account"]
    /\ UNCHANGED <<dialogFrame, conn, stats, nano, sent>>

\* -------------------------------------- listenResponses / handleResponse
\* Call-IDs the peer has seen in an INVITE.
InvitedCallIDs ==
    {c \in CallIDs : \E i \in Calls :
        sent[i] /= <<>> /\ sent[i][1].callID = c}

\* A datagram "SIP/2.0 <code> ..." with Call-ID c and To tag `tag` is read and
\* parsed, and the dialog is looked up under c.mu; an unknown Call-ID is dropped.
handleResponseLookup(c, code, tag) ==
    /\ ~crashed
    /\ rxPc = "idle"
    /\ conn = "open"
    /\ respCount < respBudget
    /\ respCount' = respCount + 1
    /\ rcvd' = [rcvd EXCEPT ![c] = IF code = 200 THEN @ \cup {tag} ELSE @]
    /\ IF activeCalls[c] /= NoCall
       THEN /\ rxPc' = "write"
            /\ rxCall' = activeCalls[c]
            /\ rxResp' = [code |-> code, tag |-> tag]
            /\ hist' = [hist EXCEPT ![activeCalls[c]].rejected =
                            IF code >= 300 THEN @ \cup {code} ELSE @]
       ELSE UNCHANGED <<rxVars, hist>>
    /\ UNCHANGED <<ncVars, clientVars, cfg, stats, shaperVars, now, nano, inWindow,
                   call, sent, wg, lifeVars, apVars, paramVars, poolVars, statVars, planVars, lockVars, tickHist>>

\* The switch on the status code, writing the record found, without a lock.
handleResponseSwitch ==
    /\ ~crashed
    /\ rxPc = "write"
    /\ call' = [call EXCEPT ![rxCall] =
                  CASE rxResp.code = 100 -> [@ EXCEPT !.Status = "TRYING"]
                    [] rxResp.code = 180 -> [@ EXCEPT !.Status = "RINGING"]
                    [] rxResp.code = 200 -> [@ EXCEPT !.Status = "ANSWERED",
                                                      !.RemoteTag = rxResp.tag]
                    [] OTHER -> @]
    /\ rxPc' = "idle"
    /\ rxCall' = NoCall
    /\ rxResp' = [code |-> 0, tag |-> NoTag]
    /\ UNCHANGED <<ncVars, clientVars, cfg, stats, shaperVars, envVars, sent, hist,
                   rcvd, wg, lifeVars, apVars, paramVars, poolVars, statVars, planVars, lockVars, tickHist>>

\* ------------------------------------------------- Generator.generateCalls
isWithinSchedule == ~cfg.ScheduleEnabled \/ inWindow

\* The wall clock crosses a boundary of the configured window.
ScheduleBoundary ==
    /\ ~crashed
    /\ cfg.ScheduleEnabled
    /\ inWindow' = ~inWindow
    /\ UNCHANGED <<ncVars, clientVars, cfg, stats, shaperVars, now, nano, respCount,
                   call, rxVars, sent, hist, rcvd, wg, lifeVars, apVars, paramVars, poolVars, statVars, planVars, lockVars,
                   tickHist>>

\* Clock events so far: ticker firings and ramp-down sleeps.
ClockEvents == (now % RampDownStepTicks) + (now \div RampDownStepTicks)

Spawned == Cardinality({i \in Calls : call[i].pc /= "idle"})

\* n times `g.wg.Add(1); go g.makeCall()`.
Spawn(n) ==
    call' = [i \in Calls |->
               IF Spawned < i /\ i <= Spawned + n
               THEN [call[i] EXCEPT !.pc = "start"] ELSE call[i]]

updateCPS_KeepsRamping(t) ==
    LET rampTicks == cfg.RampUpTime * TicksPerSec
        elapsed == t - rampStartTime
    IN  IF ~isRamping
        THEN [cps |-> currentCPS, ramping |-> FALSE]
        ELSE IF elapsed >= rampTicks
             THEN [cps |-> targetCPS, ramping |-> TRUE]
             ELSE [cps |-> (targetCPS * elapsed) \div rampTicks, ramping |-> TRUE]

\* updateCPS at time t: the values of currentCPS and isRamping it leaves.
updateCPS(t) ==
    LET rampTicks == cfg.RampUpTime * TicksPerSec
        elapsed == t - rampStartTime
    IN  IF ~isRamping
        THEN [cps |-> currentCPS, ramping |-> FALSE]
        ELSE IF elapsed >= rampTicks
             THEN [cps |-> targetCPS, ramping |-> FALSE]
             ELSE [cps |-> (targetCPS * elapsed) \div rampTicks, ramping |-> TRUE]

RampDownSteps == cfg.RampDownTime \div RampDownStepS

\* currentCPS *= 0.9
Reduce(cps) == (cps * 9) \div 10

TickKind_FloorFirst(active) ==
    IF active < cfg.MinConcurrent /\ active < cfg.MaxConcurrent THEN "floor"
    ELSE IF ~isWithinSchedule THEN "closed"
    ELSE IF active >= cfg.MaxConcurrent THEN "ceiling"
    ELSE "tokens"

TickKind_NoFloor(active) ==
    IF ~isWithinSchedule THEN "closed"
    ELSE IF active >= cfg.MaxConcurrent THEN "ceiling"
    ELSE "tokens"

\* What a tick-loop iteration does after updateCPS, from the window and the
\* value of ActiveCalls it loads.
TickKind(active) ==
    IF ~isWithinSchedule THEN "closed"
    ELSE IF active >= cfg.MaxConcurrent THEN "ceiling"
    ELSE IF active < cfg.MinConcurrent THEN "floor"
    ELSE "tokens"

TokensToSpawn_AtMostOne(acc) == IF acc >= OneCall THEN 1 ELSE 0

\* `for callAccumulator >= 1.0 { ...; callAccumulator -= 1.0 }`: the number of
\* iterations of the spawn loop.
TokensToSpawn(acc) == IF acc >= OneCall THEN acc \div OneCall ELSE 0

\* One iteration of the tick loop: updateCPS, the schedule gate (with
\* handleOutOfSchedule and the first step of startRampDown), the ceiling, the
\* floor, then token accumulation and the spawn loop.
GenerateCallsTick ==
    /\ ~crashed
    /\ genPc = "loop"
    /\ ClockEvents < tickBudget
    /\ now' = now + 1
    /\ LET u == updateCPS(now + 1)
           active == stats.ActiveCalls
           acc == callAccumulator + u.cps * (now + 1 - lastCallTime)
           kind == TickKind(active)
           n == CASE kind = "floor" -> 1
                  [] kind = "tokens" -> TokensToSpawn(acc)
                  [] OTHER -> 0
       IN  /\ isRamping' = u.ramping
           /\ Spawned + n <= MaxCalls
           /\ Spawn(n)
           /\ wg' = wg + n
           /\ lastTick' = [kind |-> kind, cps |-> u.cps, at |-> now + 1]
           /\ UNCHANGED stopBusy
           /\ closedSeen' = IF kind /= "closed" THEN NotSeen
                            ELSE IF closedSeen = NotSeen /\ u.cps > 0 THEN now + 1
                            ELSE closedSeen
           /\ IF kind = "tokens"
              THEN /\ callAccumulator' = acc - TokensToSpawn(acc) * OneCall
                   /\ lastCallTime' = now + 1
              ELSE UNCHANGED <<lastCallTime, callAccumulator>>
           /\ IF kind = "closed" /\ active > 0 /\ u.cps > 0
              THEN IF RampDownSteps > 0
                   THEN /\ currentCPS' = Reduce(u.cps)
                        /\ genPc' = "rampdown"
                        /\ rampStep' = 0
                   ELSE /\ currentCPS' = 0
                        /\ UNCHANGED <<genPc, rampStep>>
              ELSE /\ currentCPS' = u.cps
                   /\ UNCHANGED <<genPc, rampStep>>
    /\ UNCHANGED <<ncVars, clientVars, cfg, stats, targetCPS, rampStartTime, nano,
                   inWindow, respCount, rxVars, sent, hist, rcvd, lifeVars, apVars,
                   paramVars, poolVars, statVars, planVars, lockVars>>

\* startRampDown wakes from time.Sleep(10 * time.Second): back to ramp-up when
\* the window has re-opened, else the next reduction, or 0 after the last step.
RampDownWake ==
    /\ ~crashed
    /\ genPc = "rampdown"
    /\ now' = now + RampDownStepTicks
    /\ IF isWithinSchedule
       THEN /\ startRampUp(now + RampDownStepTicks)
            /\ genPc' = "loop"
            /\ UNCHANGED rampStep
       ELSE /\ IF rampStep + 1 < RampDownSteps /\ currentCPS > 0
               THEN /\ currentCPS' = Reduce(currentCPS)
                    /\ rampStep' = rampStep + 1
                    /\ UNCHANGED genPc
               ELSE /\ currentCPS' = 0
                    /\ genPc' = "loop"
                    /\ UNCHANGED rampStep
            /\ UNCHANGED <<isRamping, rampStartTime>>
    /\ closedSeen' = IF isWithinSchedule THEN NotSeen ELSE closedSeen
    /\ UNCHANGED <<ncVars, clientVars, cfg, stats, targetCPS, lastCallTime,
                   callAccumulator, nano, inWindow, respCount, call, rxVars, sent,
                   hist, rcvd, wg, lifeVars, apVars, paramVars, poolVars, statVars, planVars, lockVars, lastTick, stopBusy>>

\* ---------------------------------------------------------- Generator.Stop
\* Who calls Stop: main on SIGINT/SIGTERM, handleControl on "stop".
StopCallers == {"main", "web"}

\* Stop up to wg.Wait(): close(g.stopChan).  main calls Stop after its Start
\* has returned.  Closing a closed channel panics; net/http recovers the panic
\* of a handler, a panic of main ends the process.
StopClose(caller) ==
    /\ ~crashed
    /\ stopCalls[caller] < stopBudget[caller]
    /\ caller = "main" => startCalls > 0
    /\ stopCalls' = [stopCalls EXCEPT ![caller] = @ + 1]
    /\ IF stopChan = "closed"
       THEN /\ crashed' = (caller = "main")
            /\ UNCHANGED <<stopChan, stopPc, stopBusy>>
       ELSE /\ stopChan' = "closed"
            /\ stopPc' = "wait"
            /\ stopBusy' = (stats.ActiveCalls > 0)
            /\ UNCHANGED crashed
    /\ UNCHANGED <<ncVars, clientVars, cfg, stats, shaperVars, envVars, call, rxVars,
                   sent, hist, rcvd, wg, tasks, sockets, startCalls, apVars, paramVars, poolVars, statVars, planVars, lockVars,
                   lastTick, closedSeen>>

StopReturn_NoWait ==
    /\ ~crashed
    /\ stopPc = "wait"
    /\ conn' = IF conn = "nil" THEN conn ELSE "closed"
    /\ stopPc' = "returned"
    /\ UNCHANGED <<ncVars, rtpPorts, activeCalls, cfg, stats, shaperVars, envVars, call,
                   rxVars, sent, hist, rcvd, wg, stopChan, tasks, sockets, startCalls,
                   stopCalls, crashed, apVars, paramVars, poolVars, statVars, planVars, lockVars, tickHist>>

\* g.wg.Wait() returns, then g.sipClient.Close() and the final statistics.
StopReturn ==
    /\ ~crashed
    /\ stopPc = "wait"
    /\ wg = 0
    /\ conn' = IF conn = "nil" THEN conn ELSE "closed"
    /\ stopPc' = "returned"
    /\ UNCHANGED <<ncVars, rtpPorts, activeCalls, cfg, stats, shaperVars, envVars, call,
                   rxVars, sent, hist, rcvd, wg, stopChan, tasks, sockets, startCalls,
                   stopCalls, crashed, apVars, paramVars, poolVars, statVars, planVars, lockVars, tickHist>>

\* The tick loop's select takes `case <-g.stopChan: return`.
GenerateCallsExit ==
    /\ ~crashed
    /\ genPc = "loop"
    /\ stopChan = "closed"
    /\ genPc' = "exited"
    /\ tasks' = [tasks EXCEPT !.tick = @ - 1]
    /\ wg' = wg - 1
    /\ UNCHANGED <<ncVars, clientVars, cfg, stats, currentCPS, targetCPS, isRamping,
                   rampStartTime, rampStep, lastCallTime, callAccumulator, envVars, call,
                   rxVars, sent, hist, rcvd, stopChan, sockets, startCalls, stopPc,
                   stopCalls, crashed, apVars, paramVars, poolVars, statVars, planVars, lockVars, tickHist>>

\* Goroutines of kind t whose position the model follows one by one.
Followed(t) ==
    CASE t = "tick" -> IF genPc \in {"loop", "rampdown"} THEN 1 ELSE 0
      [] t = "controller" -> IF apPc \in {"entry", "loop"} THEN 1 ELSE 0
      [] OTHER -> 0

\* reportStatistics, collectHourlyStats, or a tick loop or controller of a
\* later Start, takes `case <-g.stopChan: return`.
TaskExit(t) ==
    /\ ~crashed
    /\ stopChan = "closed"
    /\ tasks[t] > Followed(t)
    /\ tasks' = [tasks EXCEPT ![t] = @ - 1]
    /\ wg' = wg - 1
    /\ UNCHANGED <<ncVars, clientVars, cfg, stats, shaperVars, envVars, call, rxVars,
                   sent, hist, rcvd, stopChan, sockets, startCalls, stopPc, stopCalls,
                   crashed, apVars, paramVars, poolVars, statVars, planVars, lockVars, tickHist>>

\* Start on an engine whose tick loop runs (handleControl's `go
\* w.generator.Start()`): Start has no guard, so Connect dials again and
\* replaces c.conn, startRampUp resets the ramp, and every goroutine is started
\* once more.  The iterations of the added tick loop are not followed.
StartWhileRunning ==
    /\ ~crashed
    /\ genPc \in {"loop", "rampdown"}
    /\ startCalls < MaxStarts
    /\ startCalls' = startCalls + 1
    /\ conn' = "open"
    /\ sockets' = sockets + 1
    /\ startRampUp(now)
    /\ tasks' = AddTasks(tasks, StartedTasks)
    /\ wg' = wg + WgAdds(StartedTasks)
    /\ apPc' = IF autopilotEnabled /\ apPc = "none" THEN "entry" ELSE apPc
    /\ UNCHANGED <<ncVars, rtpPorts, activeCalls, cfg, stats, targetCPS, genPc, rampStep,
                   lastCallTime, callAccumulator, envVars, call, rxVars, sent, hist,
                   rcvd, stopChan, stopPc, stopCalls, crashed, autopilotEnabled,
                   paramVars, poolVars, statVars, planVars, lockVars, tickHist>>

\* handleControl's `go w.generator.Start()` after a Stop has returned: Connect
\* dials again and starts another receive loop, startRampUp, and the goroutines
\* are started again.  g.stopChan is the channel NewGenerator made: Stop closed
\* it and nothing makes a new one.
StartAfterStop ==
    /\ ~crashed
    /\ stopPc = "returned"
    /\ genPc = "exited"
    /\ startCalls < MaxStarts
    /\ startCalls' = startCalls + 1
    /\ conn' = "open"
    /\ sockets' = sockets + 1
    /\ startRampUp(now)
    /\ genPc' = "loop"
    /\ lastCallTime' = now
    /\ callAccumulator' = 0
    /\ tasks' = AddTasks(tasks, StartedTasks)
    /\ wg' = wg + WgAdds(StartedTasks)
    /\ apPc' = IF autopilotEnabled THEN "entry" ELSE apPc
    /\ UNCHANGED <<ncVars, rtpPorts, activeCalls, cfg, stats, targetCPS, rampStep,
                   envVars, call, rxVars, sent, hist, rcvd, stopChan, stopPc,
                   stopCalls, crashed, autopilotEnabled, paramVars, poolVars,
                   statVars, planVars, lockVars, tickHist>>

\* listenResponses: c.conn.Read on the closed socket returns an error, which
\* is logged.
ListenReadError ==
    /\ ~crashed
    /\ rxPc = "idle"
    /\ conn = "closed"
    /\ rxPc' = "readerr"
    /\ UNCHANGED <<ncVars, clientVars, cfg, stats, shaperVars, envVars, call, rxCall,
                   rxResp, sent, hist, rcvd, wg, lifeVars, apVars, paramVars,
                   poolVars, statVars, planVars, lockVars, tickHist>>

\* listenResponses: `continue` after the logged error, back to c.conn.Read.
ListenContinue ==
    /\ ~crashed
    /\ rxPc = "readerr"
    /\ rxPc' = "idle"
    /\ UNCHANGED <<ncVars, clientVars, cfg, stats, shaperVars, envVars, call, rxCall,
                   rxResp, sent, hist, rcvd, wg, lifeVars, apVars, paramVars,
                   poolVars, statVars, planVars, lockVars, tickHist>>

\* ------------------------------------------------------ Generator.runAutopilot
\* time.NewTicker(AdjustmentInterval * time.Second) panics on a non-positive
\* interval; the panic of a goroutine ends the process.
RunAutopilotEnter ==
    /\ ~crashed
    /\ apPc = "entry"
    /\ IF cfg.AdjustmentInterval <= 0
       THEN /\ crashed' = TRUE
            /\ UNCHANGED apPc
       ELSE /\ apPc' = "loop"
            /\ UNCHANGED crashed
    /\ UNCHANGED <<ncVars, clientVars, cfg, stats, shaperVars, envVars, call, rxVars,
                   sent, hist, rcvd, wg, stopChan, tasks, sockets, startCalls, stopPc,
                   stopCalls, autopilotEnabled, paramVars, poolVars, statVars, planVars, lockVars, tickHist>>

Abs(x) == IF x < 0 THEN 0 - x ELSE x
Min(a, b) == IF a < b THEN a ELSE b
Max(a, b) == IF a > b THEN a ELSE b

\* math.Max(0.1, math.Min(x, 10.0))
MinCPS == Milli \div 10
MaxCPS == 10 * Milli
Clamp(x) == Max(MinCPS, Min(x, MaxCPS))

adjustParametersAutomatically_SignFlipped ==
    LET T == stats.TotalCalls
        S == stats.SuccessfulCalls
        diffT == 100 * S - cfg.TargetASR * T
    IN  IF T < MinAdjustCalls THEN targetCPS
        ELSE IF Abs(diffT) > AsrTolerance * T
             THEN Clamp(targetCPS + (diffT * cfg.MaxCPSAdjustment) \div (100 * T))
             ELSE targetCPS

\* adjustParametersAutomatically: the value of targetCPS it leaves.  With
\* T = TotalCalls and S = SuccessfulCalls, currentASR = S / T * 100, so
\* targetASR - currentASR = (TargetASR * T - 100 * S) / T.
adjustParametersAutomatically ==
    LET T == stats.TotalCalls
        S == stats.SuccessfulCalls
        diffT == cfg.TargetASR * T - 100 * S
    IN  IF T < MinAdjustCalls THEN targetCPS
        ELSE IF Abs(diffT) > AsrTolerance * T
             THEN Clamp(targetCPS + (diffT * cfg.MaxCPSAdjustment) \div (100 * T))
             ELSE targetCPS

\* The controller's select takes `case <-ticker.C`.
AutopilotTick ==
    /\ ~crashed
    /\ apPc = "loop"
    /\ targetCPS' = adjustParametersAutomatically
    /\ UNCHANGED <<ncVars, clientVars, cfg, stats, currentCPS, isRamping, rampStartTime,
                   genPc, rampStep, lastCallTime, callAccumulator, envVars, call, rxVars,
                   sent, hist, rcvd, wg, lifeVars, apVars, paramVars, poolVars, statVars, planVars, lockVars, tickHist>>

\* The controller's select takes `case <-g.stopChan: return`.
RunAutopilotExit ==
    /\ ~crashed
    /\ apPc = "loop"
    /\ stopChan = "closed"
    /\ apPc' = "exited"
    /\ tasks' = [tasks EXCEPT !.controller = @ - 1]
    /\ wg' = wg - 1
    /\ UNCHANGED <<ncVars, clientVars, cfg, stats, shaperVars, envVars, call, rxVars,
                   sent, hist, rcvd, stopChan, sockets, startCalls, stopPc, stopCalls,
                   crashed, autopilotEnabled, paramVars, poolVars, statVars, planVars, lockVars, tickHist>>

\* handleControl, action "toggle_autopilot".
ToggleAutopilot ==
    /\ ~crashed
    /\ autopilotEnabled' = ~autopilotEnabled
    /\ UNCHANGED <<ncVars, clientVars, cfg, stats, shaperVars, envVars, call, rxVars,
                   sent, hist, rcvd, wg, lifeVars, apPc, paramVars, poolVars, statVars, planVars, lockVars, tickHist>>

\* ------------------------------------------------------------ specification
Dialog(i) ==
    \/ MakeCallAddTotal(i)
    \/ MakeCallAddActive(i)
    \/ MakeCallRejected(i)
    \/ MakeCallTakePort(i)
    \/ MakeCallSendInvite(i)
    \/ MakeCallRegister(i)
    \/ MakeCallSendBye(i)
    \/ MakeCallFinish(i)
    \/ MakeCallAccount(i)
    \/ MakeCallDecActive(i)

Receive ==
    \/ \E c \in InvitedCallIDs, code \in StatusCodes, tag \in TagValues :
          handleResponseLookup(c, code, tag)
    \/ handleResponseSwitch

Next ==
    \/ Start
    \/ GenerateCallsTick
    \/ RampDownWake
    \/ ScheduleBoundary
    \/ \E i \in Calls : Dialog(i)
    \/ Receive

Spec == Init /\ [][Next]_vars

\* The progress specification: one configuration (schedule enabled, the largest
\* ceiling and floor, the full pool), and every spawned makeCall goroutine keeps
\* being scheduled: Go's scheduler starves no runnable goroutine, and each
\* time.Sleep of a dialog is finite.
InitFair ==
    /\ Init
    /\ cfg.ScheduleEnabled
    /\ cfg.MaxConcurrent = MaxCfgConcurrent
    /\ cfg.MinConcurrent = MaxCfgMinConcurrent
    /\ Len(rtpPorts) = NumPorts

FairSpec == InitFair /\ [][Next]_vars /\ \A i \in Calls : WF_vars(Dialog(i))

\* The engine with a Stop: one configuration as in the progress specification,
\* a silent peer, and one Stop call, made by main at any moment.
InitStop ==
    /\ autopilotEnabled = FALSE
    /\ tickBudget = MaxTicks
    /\ stopBudget = [main |-> 1, web |-> 0]
    /\ respBudget = MaxResp
    /\ numberPairs = 1
    /\ ncPc = "returned"
    /\ ncI = RtpPortLo + 2 * NumPorts
    /\ rtpPorts = PoolPorts(NumPorts)
    /\ cfg \in Configs
    /\ InitGenerator
    /\ cfg.ScheduleEnabled
    /\ cfg.MaxConcurrent = MaxCfgConcurrent
    /\ cfg.MinConcurrent = MaxCfgMinConcurrent

ServiceTasks == {"reporter", "rollup"}

NextStop ==
    \/ Start
    \/ GenerateCallsTick
    \/ RampDownWake
    \/ ScheduleBoundary
    \/ \E i \in Calls : Dialog(i)
    \/ \E caller \in StopCallers : StopClose(caller)
    \/ StopReturn
    \/ GenerateCallsExit
    \/ \E t \in ServiceTasks : TaskExit(t)

\* Every goroutine keeps being scheduled: a makeCall goroutine, the sleeping
\* ramp-down, a select whose stop case is ready, the waiting Stop.
SpecStop ==
    /\ InitStop
    /\ [][NextStop]_vars
    /\ \A i \in Calls : WF_vars(Dialog(i))
    /\ WF_vars(RampDownWake)
    /\ WF_vars(GenerateCallsExit)
    /\ \A t \in ServiceTasks : WF_vars(TaskExit(t))
    /\ WF_vars(StopReturn)

\* The engine under the control surface: schedule gating off, one tick of the
\* tick loop, Start calls while the engine runs, Stop calls by main and by the
\* control surface, in any order.
InitControl ==
    /\ autopilotEnabled = FALSE
    /\ tickBudget = 1
    /\ stopBudget = [main |-> 1, web |-> MaxStops - 1]
    /\ respBudget = MaxResp
    /\ numberPairs = 1
    /\ ncPc = "returned"
    /\ ncI = RtpPortLo + 2 * NumPorts
    /\ rtpPorts = PoolPorts(NumPorts)
    /\ cfg \in Configs
    /\ InitGenerator
    /\ ~cfg.ScheduleEnabled
    /\ cfg.MaxConcurrent = MaxCfgConcurrent
    /\ cfg.MinConcurrent = MaxCfgMinConcurrent

NextControl ==
    \/ Start
    \/ StartWhileRunning
    \/ GenerateCallsTick
    \/ \E i \in Calls : Dialog(i)
    \/ Receive
    \/ \E caller \in StopCallers : StopClose(caller)
    \/ StopReturn
    \/ GenerateCallsExit
    \/ \E t \in ServiceTasks \cup {"tick"} : TaskExit(t)

SpecControl == InitControl /\ [][NextControl]_vars

\* The controller on a running engine.  The configurations: calls_per_second 1
\* and 100, target_asr 0, 70 and 100, adjustment_interval unset and 1 s,
\* max_cps_adjustment 0.5.
ConfigsAutopilot ==
    [MaxConcurrent : {MaxCfgConcurrent},
     MinConcurrent : {0},
     CallsPerSecond : {Milli, 100 * Milli},
     ASR : {DefaultASR},
     ACDMin : {DefaultACDMin},
     ACDMax : {DefaultACDMax},
     RampUpTime : {0},
     RampDownTime : {CfgRampDownTime},
     ScheduleEnabled : {FALSE},
     TargetASR : {0, DefaultASR, 100},
     AdjustmentInterval : {0, 1},
     MaxCPSAdjustment : {Milli \div 2}]

\* Counter values of an engine that has run: below, at and above the
\* controller's threshold, with no, half and all attempts answered, and with
\* an answer ratio at the edge of the tolerance around the default target.
StatsAutopilot ==
    {[TotalCalls |-> t, SuccessfulCalls |-> a, FailedCalls |-> t - a, ActiveCalls |-> 0] :
        t \in {0, MinAdjustCalls - 1, MinAdjustCalls, 2 * MinAdjustCalls},
        a \in {0, MinAdjustCalls \div 2, DefaultASR - AsrTolerance, MinAdjustCalls,
               2 * MinAdjustCalls}}

\* State after Start has returned and the ramp-up has ended, with no dialog in
\* flight: the controller goroutine exists when the autopilot was enabled.
RunningEngine ==
    /\ stopBudget = NoStops
    /\ respBudget = MaxResp
    /\ numberPairs = 1
    /\ ncPc = "returned"
    /\ ncI = RtpPortLo + 2 * NumPorts
    /\ rtpPorts = PoolPorts(NumPorts)
    /\ cfg \in ConfigsAutopilot
    /\ stats \in {st \in StatsAutopilot : st.SuccessfulCalls <= st.TotalCalls}
    /\ currentCPS = cfg.CallsPerSecond
    /\ targetCPS = cfg.CallsPerSecond
    /\ isRamping = FALSE
    /\ rampStartTime = 0
    /\ genPc = "loop"
    /\ rampStep = 0
    /\ lastCallTime = 0
    /\ callAccumulator = 0
    /\ now = 0
    /\ nano = 0
    /\ inWindow = TRUE
    /\ respCount = 0
    /\ call = [i \in Calls |-> IdleCall]
    /\ rxPc = "idle"
    /\ rxCall = NoCall
    /\ rxResp = [code |-> 0, tag |-> NoTag]
    /\ sent = [i \in Calls |-> <<>>]
    /\ hist = [i \in Calls |-> IdleHist]
    /\ rcvd = [c \in CallIDs |-> {}]
    /\ conn = "open"
    /\ activeCalls = [c \in CallIDs |-> NoCall]
    /\ stopChan = "open"
    /\ tasks = StartedTasks
    /\ wg = WgAdds(StartedTasks)
    /\ sockets = 1
    /\ startCalls = 1
    /\ stopPc = "none"
    /\ stopCalls = NoStops
    /\ crashed = FALSE
    /\ apPc = IF autopilotEnabled THEN "entry" ELSE "none"
    /\ lastTick = [kind |-> "none", cps |-> 0, at |-> 0]
    /\ closedSeen = NotSeen
    /\ stopBusy = FALSE
    /\ hourlyStats = NoBuckets
    /\ snapshot = NoSnapshot
    /\ snapshotSeen = NoSnapshot
    /\ duration = NoDuration
    /\ lockPc = [t \in LockTasks |-> NotLocking]
    /\ held = [t \in LockTasks |-> <<>>]

InitAutopilot ==
    /\ autopilotEnabled \in BOOLEAN
    /\ tickBudget = 0
    /\ RunningEngine

NextAutopilot ==
    \/ RunAutopilotEnter
    \/ AutopilotTick
    \/ ToggleAutopilot

SpecAutopilot == InitAutopilot /\ [][NextAutopilot]_vars

\* The shaper with schedule gating on and the full pool: a ramp-up of 1 s at
\* 2 calls per second with no floor, followed over the whole ramp, and no
\* ramp-up at 10 calls per second with and without a floor, followed for one
\* clock event more than the dialog specification.
ShaperBase ==
    [MaxConcurrent : {MaxCfgConcurrent},
     ASR : {DefaultASR},
     ACDMin : {DefaultACDMin},
     ACDMax : {DefaultACDMax},
     RampDownTime : {CfgRampDownTime},
     ScheduleEnabled : {TRUE},
     TargetASR : {DefaultASR},
     AdjustmentInterval : {0},
     MaxCPSAdjustment : {0}]

WithShaping(base, floor, cps, rampUp) ==
    [MaxConcurrent |-> base.MaxConcurrent,
     MinConcurrent |-> floor,
     CallsPerSecond |-> cps,
     ASR |-> base.ASR,
     ACDMin |-> base.ACDMin,
     ACDMax |-> base.ACDMax,
     RampUpTime |-> rampUp,
     RampDownTime |-> base.RampDownTime,
     ScheduleEnabled |-> base.ScheduleEnabled,
     TargetASR |-> base.TargetASR,
     AdjustmentInterval |-> base.AdjustmentInterval,
     MaxCPSAdjustment |-> base.MaxCPSAdjustment]

ConfigsShaper ==
    {WithShaping(b, 0, 2 * Milli, 1) : b \in ShaperBase}
        \cup {WithShaping(b, f, 10 * Milli, 0) :
                 b \in ShaperBase, f \in 0 .. MaxCfgMinConcurrent}

InitShaper ==
    /\ autopilotEnabled = FALSE
    /\ cfg \in ConfigsShaper
    /\ tickBudget = IF cfg.RampUpTime > 0 THEN MaxShaperTicks ELSE MaxTicks + 1
    /\ stopBudget = NoStops
    /\ respBudget = MaxResp
    /\ numberPairs = 1
    /\ ncPc = "returned"
    /\ ncI = RtpPortLo + 2 * NumPorts
    /\ rtpPorts = PoolPorts(NumPorts)
    /\ InitGenerator

SpecShaper == InitShaper /\ [][Next]_vars

\* ------------------------------------------------------ stop, then start
\* The engine stopped once by the control surface and started again: schedule
\* gating off, the largest ceiling and floor, two ticks, a silent peer.
InitRestart ==
    /\ autopilotEnabled = FALSE
    /\ tickBudget = MaxTicks - 1
    /\ stopBudget = [main |-> 0, web |-> 1]
    /\ respBudget = MaxResp
    /\ numberPairs = 1
    /\ ncPc = "returned"
    /\ ncI = RtpPortLo + 2 * NumPorts
    /\ rtpPorts = PoolPorts(NumPorts)
    /\ cfg \in Configs
    /\ InitGenerator
    /\ ~cfg.ScheduleEnabled
    /\ cfg.MaxConcurrent = MaxCfgConcurrent
    /\ cfg.MinConcurrent = MaxCfgMinConcurrent

NextRestart ==
    \/ Start
    \/ StartAfterStop
    \/ GenerateCallsTick
    \/ \E i \in Calls : Dialog(i)
    \/ \E caller \in StopCallers : StopClose(caller)
    \/ StopReturn
    \/ GenerateCallsExit
    \/ \E t \in ServiceTasks : TaskExit(t)
    \/ ListenReadError
    \/ ListenContinue

SpecRestart == InitRestart /\ [][NextRestart]_vars

\* ------------------------------------------- the controller and the shaper
\* The running engine with its controller (interval 1 s) and its tick loop,
\* followed for MaxTicks ticks after the ramp-up has ended.
InitReconcile ==
    /\ autopilotEnabled = TRUE
    /\ tickBudget = MaxTicks
    /\ RunningEngine
    /\ cfg.AdjustmentInterval > 0

NextReconcile ==
    \/ RunAutopilotEnter
    \/ AutopilotTick
    \/ GenerateCallsTick

SpecReconcile == InitReconcile /\ [][NextReconcile]_vars

\* ------------------------------------ collectHourlyStats / GetStatistics
\* The 5-minute ticker of collectHourlyStats fires in hour h: the bucket of h is
\* created if absent, overwritten with the running counters, and its peak is
\* raised to the active count.  The firing is placed between two shaper ticks.
CollectHourlyStatsTick ==
    /\ ~crashed
    /\ tasks.rollup > 0
    /\ \E h \in Hours :
          LET old == hourlyStats[h]
          IN  hourlyStats' = [hourlyStats EXCEPT ![h] =
                  [Hour |-> h,
                   TotalCalls |-> stats.TotalCalls,
                   SuccessfulCalls |-> stats.SuccessfulCalls,
                   FailedCalls |-> stats.FailedCalls,
                   PeakConcurrent |-> IF stats.ActiveCalls > old.PeakConcurrent
                                      THEN stats.ActiveCalls
                                      ELSE old.PeakConcurrent]]
    /\ UNCHANGED <<ncVars, clientVars, cfg, stats, shaperVars, envVars, call, rxVars,
                   sent, hist, rcvd, wg, lifeVars, apVars, paramVars, poolVars,
                   snapshot, snapshotSeen, planVars, lockVars, tickHist>>

\* What an observer reaches from a snapshot: its scalar fields, and the map its
\* HourlyStats field points to.
Reachable(snap) ==
    [snap EXCEPT !.HourlyStats = IF @ = SharedMap THEN hourlyStats ELSE @]

\* GetStatistics: the counters are loaded into a new models.Statistics, whose
\* HourlyStats field is assigned g.hourlyStats, the map itself.  The model
\* follows the first snapshot returned.
GetStatistics ==
    /\ ~crashed
    /\ ~snapshot.taken
    /\ snapshot' = [taken |-> TRUE,
                    TotalCalls |-> stats.TotalCalls,
                    SuccessfulCalls |-> stats.SuccessfulCalls,
                    FailedCalls |-> stats.FailedCalls,
                    ActiveCalls |-> stats.ActiveCalls,
                    HourlyStats |-> SharedMap]
    /\ snapshotSeen' = Reachable(snapshot')
    /\ UNCHANGED <<ncVars, clientVars, cfg, stats, shaperVars, envVars, call, rxVars,
                   sent, hist, rcvd, wg, lifeVars, apVars, paramVars, poolVars,
                   hourlyStats, planVars, lockVars, tickHist>>

\* The engine with an observer: schedule disabled, no floor, one tick (one
\* dialog), a silent peer.
InitStats ==
    /\ autopilotEnabled = FALSE
    /\ tickBudget = 1
    /\ stopBudget = NoStops
    /\ respBudget = MaxResp
    /\ numberPairs = 1
    /\ cfg \in Configs
    /\ ~cfg.ScheduleEnabled
    /\ cfg.MinConcurrent = 0
    /\ ncPc = "returned"
    /\ ncI = RtpPortLo + 2 * NumPorts
    /\ rtpPorts = PoolPorts(NumPorts)
    /\ InitGenerator

NextStats ==
    \/ Start
    \/ GenerateCallsTick
    \/ \E i \in Calls : Dialog(i)
    \/ CollectHourlyStatsTick
    \/ GetStatistics

SpecStats == InitStats /\ [][NextStats]_vars

\* ------------------------------------------- one dialog and its responses
\* One dialog (schedule disabled, no floor, one tick) to which the
\* peer sends MaxDialogResp responses, in any order.
InitResponses ==
    /\ autopilotEnabled = FALSE
    /\ tickBudget = 1
    /\ stopBudget = NoStops
    /\ respBudget = MaxDialogResp
    /\ numberPairs = 1
    /\ cfg \in Configs
    /\ ~cfg.ScheduleEnabled
    /\ cfg.MinConcurrent = 0
    /\ ncPc = "returned"
    /\ ncI = RtpPortLo + 2 * NumPorts
    /\ rtpPorts = PoolPorts(NumPorts)
    /\ InitGenerator

NextResponses ==
    \/ Start
    \/ GenerateCallsTick
    \/ \E i \in Calls : Dialog(i)
    \/ Receive

SpecResponses == InitResponses /\ [][NextResponses]_vars

\* ----------------------------------------------- the number-pair pool
\* The engine started on a number file that holds pairs, or only a header
\* (LoadNumbersFromCSV then leaves an empty slice); the peer is silent.
InitPool ==
    /\ autopilotEnabled = FALSE
    /\ tickBudget = MaxTicks
    /\ stopBudget = NoStops
    /\ respBudget = MaxResp
    /\ numberPairs \in {0, 1}
    /\ cfg \in Configs
    /\ ncPc = "returned"
    /\ ncI = RtpPortLo + 2 * NumPorts
    /\ rtpPorts = PoolPorts(NumPorts)
    /\ InitGenerator

NextPool ==
    \/ Start
    \/ GenerateCallsTick
    \/ RampDownWake
    \/ ScheduleBoundary
    \/ \E i \in Calls : Dialog(i)
    \/ \E i \in Calls : MakeCallNoPair(i)

SpecPool == InitPool /\ [][NextPool]_vars

\* ------------------------------------------------ makeCall's call duration
\* The whole seconds time.Duration(float64(base) + variation) holds, for
\* variation = float64(base) * 0.2 * (rand.Float64() - 0.5) with rand.Float64()
\* in [0, 1): the truncations of the reals in [0.9 base, 1.1 base).
DurationOutcomes(base) ==
    IF base = 0
    THEN {0}
    ELSE ((9 * base) \div 10) .. (((11 * base + 9) \div 10) - 1)

\* The answered branch of makeCall up to the call of Client.MakeCall:
\* baseDuration = ACDMin + rand.Intn(ACDMax - ACDMin), where rand.Intn panics
\* for an argument that is not positive and the panic, which nothing recovers,
\* ends the process; then the variation is added.
MakeCallSampleDuration ==
    /\ ~crashed
    /\ duration.pc = "none"
    /\ LET n == cfg.ACDMax - cfg.ACDMin
       IN  IF n <= 0
           THEN /\ crashed' = TRUE
                /\ duration' = [pc |-> "panic", seconds |-> 0]
           ELSE /\ \E r \in 0 .. (n - 1) :
                      \E d \in DurationOutcomes(cfg.ACDMin + r) :
                          duration' = [pc |-> "sampled", seconds |-> d]
                /\ UNCHANGED crashed
    /\ UNCHANGED <<ncVars, clientVars, cfg, stats, shaperVars, envVars, call, rxVars,
                   sent, hist, rcvd, wg, stopChan, tasks, sockets, startCalls, stopPc,
                   stopCalls, apVars, paramVars, poolVars, statVars, lockVars, tickHist>>

\* The configurations with 1 <= acd_min <= acd_max <= MaxAcd, the edge
\* acd_min = acd_max included.
ConfigsDuration ==
    {c \in {[b EXCEPT !.ACDMin = lo, !.ACDMax = hi] :
               b \in Configs, lo \in 1 .. MaxAcd, hi \in 1 .. MaxAcd} :
        c.ACDMin <= c.ACDMax}

InitDuration ==
    /\ autopilotEnabled = FALSE
    /\ tickBudget = 0
    /\ stopBudget = NoStops
    /\ respBudget = MaxResp
    /\ numberPairs = 1
    /\ cfg \in ConfigsDuration
    /\ ~cfg.ScheduleEnabled
    /\ ncPc = "returned"
    /\ ncI = RtpPortLo + 2 * NumPorts
    /\ rtpPorts = PoolPorts(NumPorts)
    /\ InitGenerator

NextDuration == MakeCallSampleDuration

SpecDuration == InitDuration /\ [][NextDuration]_vars

\* ------------------------------------------------- g.stats.mu and g.mu
StatsMu == "g.stats.mu"
GenMu == "g.mu"

Lock(m) == [op |-> "Lock", mu |-> m]
Unlock(m) == [op |-> "Unlock", mu |-> m]
RLock(m) == [op |-> "RLock", mu |-> m]
RUnlock(m) == [op |-> "RUnlock", mu |-> m]

\* The lock operations of each function, in program order, per path.
\* adjustParametersAutomatically holds g.stats.mu for the whole call (deferred
\* unlock) and takes g.mu around the write of targetCPS, on the path that
\* changes the rate.
adjustParametersAutomaticallyLocks ==
    {<<Lock(StatsMu), Unlock(StatsMu)>>,
     <<Lock(StatsMu), Lock(GenMu), Unlock(GenMu), Unlock(StatsMu)>>}

\* GetStatistics taking g.mu for the map before g.stats.mu.
GetStatisticsLocks_GenFirst ==
    {<<RLock(GenMu), Lock(StatsMu), Unlock(StatsMu), RUnlock(GenMu)>>}

GetStatisticsLocks == {<<Lock(StatsMu), Unlock(StatsMu)>>}

collectHourlyStatsLocks == {<<Lock(GenMu), Unlock(GenMu)>>}

LoadNumbersLocks == {<<Lock(GenMu), Unlock(GenMu)>>}

makeCallLocks == {<<RLock(GenMu), RUnlock(GenMu)>>}

LockProgramsOf(t) ==
    CASE t = "controller" -> adjustParametersAutomaticallyLocks
      [] t = "observer" -> GetStatisticsLocks
      [] t = "rollup" -> collectHourlyStatsLocks
      [] t = "loader" -> LoadNumbersLocks
      [] OTHER -> makeCallLocks

Running(t) == lockPc[t].k > 0
CurrentOp(t) == lockPc[t].prog[lockPc[t].k]
\* t has called Lock or RLock and has not returned from it.
Waiting(t) == Running(t) /\ CurrentOp(t).op \in {"Lock", "RLock"}

HoldsAs(t, m, mode) ==
    \E k \in DOMAIN held[t] : held[t][k] = [mu |-> m, mode |-> mode]
WriterOf(m) == {t \in LockTasks : HoldsAs(t, m, "w")}
ReadersOf(m) == {t \in LockTasks : HoldsAs(t, m, "r")}
WaitingWriters(m) ==
    {t \in LockTasks : Waiting(t) /\ CurrentOp(t) = Lock(m)}

\* sync.Mutex and sync.RWMutex: Lock returns when nobody holds the mutex;
\* RLock returns when no writer holds it and no Lock call is pending.
CanAcquire(t) ==
    LET o == CurrentOp(t)
    IN  IF o.op = "Lock"
        THEN WriterOf(o.mu) = {} /\ ReadersOf(o.mu) = {}
        ELSE WriterOf(o.mu) = {} /\ WaitingWriters(o.mu) = {}

\* The tasks a pending Lock or RLock call of t waits for.
BlockedBy(t) ==
    LET o == CurrentOp(t)
    IN  IF o.op = "Lock"
        THEN WriterOf(o.mu) \cup ReadersOf(o.mu)
        ELSE WriterOf(o.mu) \cup WaitingWriters(o.mu)

Advanced(pc) ==
    IF pc.k = Len(pc.prog) THEN NotLocking ELSE [pc EXCEPT !.k = @ + 1]

LockUnchanged ==
    UNCHANGED <<ncVars, clientVars, cfg, stats, shaperVars, envVars, call, rxVars,
                sent, hist, rcvd, wg, lifeVars, apVars, paramVars, poolVars,
                statVars, planVars, tickHist>>

\* A task enters one of its locking functions and calls its first Lock / RLock.
LockBegin(t) ==
    /\ ~crashed
    /\ ~Running(t)
    /\ \E p \in LockProgramsOf(t) :
          lockPc' = [lockPc EXCEPT ![t] = [prog |-> p, k |-> 1]]
    /\ UNCHANGED held
    /\ LockUnchanged

\* A pending Lock / RLock call returns.
LockAcquire(t) ==
    /\ ~crashed
    /\ Waiting(t)
    /\ CanAcquire(t)
    /\ held' = [held EXCEPT ![t] =
                   Append(@, [mu |-> CurrentOp(t).mu,
                              mode |-> IF CurrentOp(t).op = "Lock" THEN "w" ELSE "r"])]
    /\ lockPc' = [lockPc EXCEPT ![t] = Advanced(@)]
    /\ LockUnchanged

\* Unlock / RUnlock.
LockRelease(t) ==
    /\ ~crashed
    /\ Running(t)
    /\ ~Waiting(t)
    /\ held' = [held EXCEPT ![t] =
                   SelectSeq(@, LAMBDA h : h.mu /= CurrentOp(t).mu)]
    /\ lockPc' = [lockPc EXCEPT ![t] = Advanced(@)]
    /\ LockUnchanged

\* A running engine with the autopilot on, whose goroutines enter their
\* locking functions in any order and at any time.
InitLocks ==
    /\ autopilotEnabled = TRUE
    /\ tickBudget = 0
    /\ RunningEngine
    /\ stats.TotalCalls = 0
    /\ cfg.CallsPerSecond = Milli
    /\ cfg.TargetASR = DefaultASR
    /\ cfg.AdjustmentInterval = 1

NextLocks ==
    \/ \E t \in LockTasks : LockBegin(t)
    \/ \E t \in LockTasks : LockAcquire(t)
    \/ \E t \in LockTasks : LockRelease(t)

SpecLocks == InitLocks /\ [][NextLocks]_vars

\* ================================================================== claims
Returned(i) == call[i].pc \in {"account", "decActive", "done"}
Finished(i) == call[i].pc = "done"

\* No makeCall goroutine is between its first counter update (TotalCalls + 1)
\* and its last (ActiveCalls - 1).
Quiescent == \A i \in Calls : call[i].pc \in {"idle", "start", "done"}

\* C1: at every quiescent state of the generator,
\* total_attempts = answered + failed + active_now.
C1_CountersBalanceWhenQuiescent ==
    Quiescent =>
        stats.TotalCalls =
            stats.SuccessfulCalls + stats.FailedCalls + stats.ActiveCalls

\* A quiescent state after a send-failed call and an answered call.
C1_Witness ==
    /\ Quiescent
    /\ \E i, j \in Calls :
          /\ Finished(i) /\ call[i].err
          /\ Finished(j) /\ hist[j].outcome = "answered"

InFlight == {i \in Calls : hist[i].counted > hist[i].uncounted}

\* C2: active_now is never negative, it counts exactly the calls that have
\* incremented it and not yet decremented it, and a call that incremented it
\* has decremented it exactly once when it ends, whatever its outcome.
C2_ActiveBalanced ==
    /\ stats.ActiveCalls >= 0
    /\ stats.ActiveCalls = Cardinality(InFlight)
    /\ \A i \in Calls :
          /\ hist[i].uncounted <= hist[i].counted
          /\ hist[i].counted <= 1
          /\ Finished(i) => hist[i].counted = 1 /\ hist[i].uncounted = 1

\* A rejected call and a send-failed call have both ended.
C2_Witness ==
    \E i, j \in Calls :
        /\ Finished(i) /\ ~call[i].shouldAnswer /\ hist[i].uncounted = 1
        /\ Finished(j) /\ call[j].err /\ hist[j].uncounted = 1

\* C3: NewClient terminates (it returns, or it can take a step), and when it
\* has returned the pool holds the even ports of [10000, 20000), each once.
C3_NewClientReturnsFullPool ==
    /\ ncPc = "returned" \/ ENABLED NewClient
    /\ ncPc = "returned" => rtpPorts = EvenPortsFrom(RtpPortLo, RtpPortHi)

\* C4: with min_concurrent <= max_concurrent, active_now never exceeds
\* max_concurrent.
C4_ActiveNeverExceedsMax ==
    cfg.MinConcurrent <= cfg.MaxConcurrent =>
        stats.ActiveCalls <= cfg.MaxConcurrent

InitialPool == Range(PoolPorts((ncI - RtpPortLo) \div 2))

\* C5: a dialog puts back the port it took, once, on the BYE path and on the
\* send-error path; whenever no dialog holds a port the pool is the initial set.
C5_PortsReturnedOnce ==
    /\ \A i \in Calls :
          /\ hist[i].returned <= hist[i].taken
          /\ hist[i].taken <= 1
          /\ Returned(i) /\ call[i].shouldAnswer =>
                hist[i].taken = 1 /\ hist[i].returned = 1
    /\ (\A i \in Calls : hist[i].returned = hist[i].taken) =>
          /\ Range(rtpPorts) = InitialPool
          /\ Len(rtpPorts) = Cardinality(InitialPool)
    /\ \A i \in Calls : hist[i].taken > hist[i].returned =>
          call[i].rtpPort \in InitialPool \ Range(rtpPorts)

\* Both exit paths were taken and every port is back.
C5_Witness ==
    /\ \A i \in Calls : hist[i].returned = hist[i].taken
    /\ \E i, j \in Calls :
          /\ call[i].err /\ hist[i].returned = 1
          /\ Len(sent[j]) = 2 /\ hist[j].returned = 1

\* What a dialog has handed to the socket: nothing, its INVITE, or its INVITE
\* then one BYE with the INVITE's Call-ID; after MakeCall returned nil, both.
SentInOrder(i) ==
    /\ Len(sent[i]) <= 2
    /\ sent[i] /= <<>> => sent[i][1].kind = "INVITE"
    /\ Len(sent[i]) = 2 =>
          /\ sent[i][2].kind = "BYE"
          /\ sent[i][2].callID = sent[i][1].callID
    /\ Returned(i) /\ sent[i] /= <<>> => Len(sent[i]) = 2

C7_ByeTagsMatch ==
    \A i \in Calls :
        Len(sent[i]) = 2 =>
            /\ sent[i][2].from = sent[i][1].from
            /\ hist[i].byeSaw2xx /= {} => sent[i][2].to \in hist[i].byeSaw2xx

\* C8: an answered-flag call whose BYE was sent with no 200 response read for
\* its Call-ID is counted in failed.
C8_UnansweredCountsAsFailed ==
    \A i \in Calls :
        Finished(i) /\ Len(sent[i]) = 2 /\ hist[i].byeSaw2xx = {} =>
            hist[i].outcome = "failed"

\* C9: once handleResponse has handled a 3xx-6xx response for a live dialog,
\* the dialog is FAILED, and when it ends it is counted in failed.
C9_ErrorResponseFailsDialog ==
    \A i \in Calls :
        hist[i].rejected /= {} /\ ~(rxPc = "write" /\ rxCall = i) =>
            /\ call[i].Status = "FAILED"
            /\ Finished(i) => hist[i].outcome = "failed"

OthersUntouched(i) ==
    /\ \A j \in Calls \ {i} : call'[j] = call[j] /\ sent'[j] = sent[j]
    /\ UNCHANGED <<activeCalls, conn, shaperVars, rxVars, cfg>>

\* C10: a dialog whose INVITE write failed never has an index entry and ends
\* with failed + 1, active_now - 1 and its port back in the pool; none of its
\* steps from the failure on touches another dialog's record, the index, the
\* socket, the shaper or the receive loop.
C10_SendFailureIsLocal ==
    /\ [](\A i \in Calls : call[i].err =>
            /\ \A c \in CallIDs : activeCalls[c] /= i
            /\ sent[i] = <<>>
            /\ hist[i].returned = 1
            /\ Finished(i) => hist[i].outcome = "failed" /\ hist[i].uncounted = 1)
    /\ [][\A i \in Calls :
            /\ call[i].pc = "invite" /\ call'[i].pc = "account" =>
                  /\ rtpPorts' = Append(rtpPorts, call[i].rtpPort)
                  /\ stats' = stats
                  /\ OthersUntouched(i)
            /\ call[i].err /\ call[i].pc = "account" /\ call'[i].pc = "decActive" =>
                  /\ stats' = [stats EXCEPT !.FailedCalls = @ + 1]
                  /\ rtpPorts' = rtpPorts
                  /\ OthersUntouched(i)
            /\ call[i].err /\ call[i].pc = "decActive" /\ call'[i].pc = "done" =>
                  /\ stats' = [stats EXCEPT !.ActiveCalls = @ - 1]
                  /\ rtpPorts' = rtpPorts
                  /\ OthersUntouched(i)]_vars

\* A send-failed dialog has ended while another dialog is registered and live.
C10_Witness ==
    \E i, j \in Calls :
        /\ Finished(i) /\ call[i].err
        /\ call[j].pc = "talk" /\ activeCalls[call[j].SIPCallID] = j

\* C11: a Stop issued while the engine runs returns, and at its return no
\* dialog is in flight: active_now = 0 and every spawned makeCall has ended.
C11_StopReturnsAfterDrain ==
    /\ [][stopPc = "wait" /\ stopPc' = "returned" =>
            /\ stats.ActiveCalls = 0
            /\ \A i \in Calls : call[i].pc \in {"idle", "done"}]_vars
    /\ (stopPc = "wait") ~> (stopPc = "returned")

\* A Stop issued with a dialog in flight has returned.
C11_Witness ==
    /\ stopPc = "returned"
    /\ stopBusy
    /\ \E i \in Calls : Finished(i) /\ Len(sent[i]) = 2

\* C12: no Stop call, whenever it is made, ends the process, and a Stop that
\* waits is never stuck: some goroutine can still take a step.
C12_StopIsSafe ==
    /\ ~crashed
    /\ stopPc = "wait" => ENABLED NextControl

\* C13: a Start call made while the tick loop runs leaves the long-lived
\* goroutines, the socket, the ramp state and current_cps as they were.
C13_StartIsIdempotent ==
    [][startCalls' > startCalls /\ genPc \in {"loop", "rampdown"} =>
          UNCHANGED <<tasks, sockets, conn, isRamping, rampStartTime, currentCPS>>]_vars

\* C14: while the autopilot is switched off, no step (no controller tick)
\* changes target_cps.
C14_ToggleOffStopsAdjusting ==
    [][~autopilotEnabled => targetCPS' = targetCPS]_vars

\* C15: no adjustment moves target_cps by more than max_cps_step.
C15_AdjustmentBounded ==
    [][Abs(targetCPS' - targetCPS) <= cfg.MaxCPSAdjustment]_vars

\* C16: whatever the counters and the loaded adjustment interval, the
\* controller goroutine raises no fatal error.
C16_AutopilotNeverCrashes ==
    apPc /= "none" => ~crashed

\* A step of the tick loop: a ticker firing, or the wake of a ramp-down sleep.
ShaperStep == now' /= now
TickStep == genPc = "loop" /\ now' = now + 1

\* C17: a tick-loop step taken while the schedule is enabled and the window is
\* closed spawns no dialog, whatever the floor and the tokens.
C17_NoSpawnOutsideWindow ==
    [][ShaperStep /\ cfg.ScheduleEnabled /\ ~inWindow => Spawned' = Spawned]_vars

\* A tick found the window closed at a positive rate with the floor unmet (no
\* dialog was ever spawned) and spawned nothing.
C17_Witness ==
    /\ lastTick.kind = "closed"
    /\ lastTick.cps > 0
    /\ cfg.MinConcurrent > 0
    /\ Spawned = 0

\* C18: once a tick has observed the window closed at a positive rate, the
\* ramp-down begins at that tick (current_cps drops), current_cps does not
\* increase while the window is observed closed, and it is 0 when ramp_down_s
\* has elapsed since the observation.
C18_RampDownWhenClosed ==
    /\ [][closedSeen = NotSeen /\ closedSeen' /= NotSeen =>
            currentCPS' < updateCPS(now').cps]_vars
    /\ [][closedSeen /= NotSeen /\ closedSeen' /= NotSeen =>
            currentCPS' <= currentCPS]_vars
    /\ [](closedSeen /= NotSeen
            /\ now >= closedSeen + cfg.RampDownTime * TicksPerSec => currentCPS = 0)

\* C19: an in-window tick taken while ramping leaves current_cps at
\* target_cps * min(1, elapsed / ramp_up_s), to the precision of the rate, and
\* the ramp is over exactly when elapsed >= ramp_up_s, with current_cps at
\* target_cps.
C19_RampUpLinear ==
    [][TickStep /\ isRamping /\ isWithinSchedule =>
          LET rampTicks == cfg.RampUpTime * TicksPerSec
              elapsed == now' - rampStartTime
          IN  /\ isRamping' <=> elapsed < rampTicks
              /\ ~isRamping' => currentCPS' = targetCPS
              /\ isRamping' =>
                    /\ currentCPS' * rampTicks <= targetCPS * elapsed
                    /\ targetCPS * elapsed < (currentCPS' + 1) * rampTicks]_vars

\* The tick that ends a ramp-up of 1 s has just been taken.
C19_Witness ==
    /\ cfg.RampUpTime > 0
    /\ lastTick.kind = "tokens"
    /\ ~isRamping
    /\ now - rampStartTime = cfg.RampUpTime * TicksPerSec
    /\ currentCPS = targetCPS

\* C20: an in-window tick that loads active_now below the floor (and below the
\* ceiling) spawns one dialog, whatever current_cps and the accumulator.
C20_FloorSpawns ==
    [][TickStep /\ isWithinSchedule /\ stats.ActiveCalls < cfg.MinConcurrent
            /\ stats.ActiveCalls < cfg.MaxConcurrent =>
          Spawned' = Spawned + 1]_vars

\* A floor spawn at current_cps = 0, after a ramp-down has ended.
C20_Witness ==
    /\ lastTick.kind = "floor"
    /\ lastTick.cps = 0
    /\ callAccumulator < OneCall
    /\ Spawned > 0

\* C21: while the number-pair pool is empty no step (a tick spawning a
\* makeCall, the makeCall itself) changes a counter, takes an RTP port, sends
\* a message or touches the Call-ID index.
C21_EmptyPoolIsNoAttempt ==
    [][numberPairs = 0 => UNCHANGED <<stats, rtpPorts, sent, activeCalls>>]_vars

\* A makeCall was spawned with an empty pool and has returned.
C21_Witness ==
    /\ numberPairs = 0
    /\ \E i \in Calls : call[i].pc = "done"
    /\ stats.TotalCalls = 0

\* C22: what is reachable from a returned snapshot, its hourly buckets
\* included, stays what it was when the snapshot was returned.
C22_SnapshotIsValueCopy ==
    snapshot.taken => Reachable(snapshot) = snapshotSeen

\* C23: no two dialogs created in one process lifetime carry the same Call-ID,
\* and a registered dialog keeps its own entry of the Call-ID index until it
\* deletes it itself.
C23_CallIDsUnique ==
    /\ \A i, j \in Calls :
          i /= j /\ call[i].SIPCallID /= 0 /\ call[j].SIPCallID /= 0 =>
              call[i].SIPCallID /= call[j].SIPCallID
    /\ \A i \in Calls :
          call[i].pc \in {"talk", "finish"} => activeCalls[call[i].SIPCallID] = i

\* C24: a dialog whose INVITE is on the wire and whose BYE is not yet sent has
\* its entry in the Call-ID index; a dialog that has ended has none.
C24_IndexedWhileInDialog ==
    \A i \in Calls :
        /\ Len(sent[i]) = 1 => activeCalls[call[i].SIPCallID] = i
        /\ call[i].pc \in {"account", "decActive", "done"} =>
              \A c \in CallIDs : activeCalls[c] /= i

\* Position of a dialog status on INITIATING, TRYING, RINGING, ANSWERED | FAILED.
StatusRank(st) ==
    CASE st = "INITIATING" -> 1
      [] st = "TRYING" -> 2
      [] st = "RINGING" -> 3
      [] st \in {"ANSWERED", "FAILED"} -> 4
      [] OTHER -> 0

\* C25: no step moves the status of a dialog backwards along INITIATING,
\* TRYING, RINGING, ANSWERED or FAILED.
C25_StatusMovesForward ==
    [][\A i \in Calls : StatusRank(call'[i].Status) >= StatusRank(call[i].Status)]_vars

\* A step of the controller's ticker case.
ControllerRun ==
    apPc = "loop" /\ apPc' = "loop" /\ autopilotEnabled' = autopilotEnabled

\* C26: one controller run changes nothing but target_cps; it leaves target_cps
\* as it is when total_attempts < 100 or |current_asr - target_asr| <= 5, and
\* otherwise sets it to clamp(target_cps + ((target_asr - current_asr) / 100)
\* * max_cps_step, 0.1, 10.0), to the precision of the rate.  With current_asr
\* = 100 * S / T, the comparisons are multiplied through by T and by 100 * T.
C26_ControllerRule ==
    [][ControllerRun =>
          LET T == stats.TotalCalls
              S == stats.SuccessfulCalls
              gap == cfg.TargetASR * T - 100 * S
              raw == targetCPS * 100 * T + gap * cfg.MaxCPSAdjustment
          IN  /\ UNCHANGED <<stats, cfg, currentCPS, isRamping, rampStartTime,
                             callAccumulator, autopilotEnabled, numberPairs>>
              /\ T < 100 \/ Abs(gap) <= 5 * T => targetCPS' = targetCPS
              /\ T >= 100 /\ Abs(gap) > 5 * T =>
                    /\ targetCPS' >= Milli \div 10
                    /\ targetCPS' <= 10 * Milli
                    /\ targetCPS' < 10 * Milli => raw < (targetCPS' + 1) * 100 * T
                    /\ targetCPS' > Milli \div 10 => targetCPS' * 100 * T <= raw]_vars

\* The controller has raised the target of 1 call per second because the
\* measured answer ratio was below the target ratio.
C26_Witness ==
    /\ apPc = "loop"
    /\ stats.TotalCalls >= MinAdjustCalls
    /\ 100 * stats.SuccessfulCalls < cfg.TargetASR * stats.TotalCalls
    /\ cfg.CallsPerSecond = Milli
    /\ targetCPS > cfg.CallsPerSecond

\* C27: the shaper reconciles current_cps with target_cps through its ramp:
\* after every tick taken with the window open, current_cps equals target_cps
\* or a ramp toward it is in progress.
C27_ShaperFollowsTarget ==
    [][TickStep /\ isWithinSchedule => currentCPS' = targetCPS \/ isRamping']_vars

\* C28: when a ramp-down sleep ends with the window open again, the ramp-up
\* that starts has current_cps at the non-zero value the ramp-down had reached,
\* not at 0.
C28_RampUpFromCurrent ==
    [][genPc = "rampdown" /\ now' /= now /\ isWithinSchedule /\ currentCPS > 0 =>
          isRamping' /\ currentCPS' > 0 /\ currentCPS' >= currentCPS]_vars

\* C29: with the window open (again), the shaper paces by tokens at a positive
\* rate or is on its way there: after every tick taken with the window open,
\* current_cps > 0 or a ramp-up is in progress.
C29_ResumesAfterReopen ==
    [][TickStep /\ isWithinSchedule => currentCPS' > 0 \/ isRamping']_vars

\* C30: a tick that reaches token accumulation right after another tick adds
\* current_cps times the one tick period between them to the accumulator (one
\* call is taken off per dialog spawned), whatever the preceding tick did.
C30_AccumulatesSinceLastTick ==
    [][TickStep /\ lastTick'.kind = "tokens" /\ lastTick.kind /= "none"
            /\ lastTick.at = now =>
          callAccumulator' + (Spawned' - Spawned) * OneCall
              = callAccumulator + currentCPS' * (now' - lastTick.at)]_vars

\* C31: the token accumulator is never negative and is below one call after
\* every tick, and a tick that reaches token accumulation spawns as many
\* dialogs as the accumulator holds whole calls before the spawn loop.
C31_AccumulatorInRange ==
    /\ [](callAccumulator >= 0 /\ callAccumulator < OneCall)
    /\ [][TickStep /\ lastTick'.kind = "tokens" =>
            LET before == callAccumulator + currentCPS' * (now' - lastCallTime)
            IN  /\ (Spawned' - Spawned) * OneCall <= before
                /\ before < (Spawned' - Spawned + 1) * OneCall]_vars

\* A tick of the ramp-up has spawned a dialog from tokens and kept a fraction.
C31_Witness ==
    /\ lastTick.kind = "tokens"
    /\ cfg.MinConcurrent = 0
    /\ Spawned > 0
    /\ callAccumulator > 0

\* C33: the socket is closed by Stop only when the tick loop has ended and no
\* dialog is in flight, so no dialog has a BYE left to write to a closed socket.
C33_CloseAfterJoin ==
    conn = "closed" =>
        /\ genPc \notin {"loop", "rampdown"}
        /\ tasks.tick = 0
        /\ \A i \in Calls : call[i].pc \in {"idle", "done"}

\* Stop was called with a dialog in flight; the dialog sent its BYE, the tick
\* loop ended, and then the socket was closed.
C33_Witness ==
    /\ conn = "closed"
    /\ stopBusy
    /\ genPc = "exited"
    /\ \E i \in Calls : call[i].pc = "done" /\ Len(sent[i]) = 2

\* C39: once the single Stop has returned, no step changes a counter, spawns a
\* dialog or writes a message, and the counters are settled:
\* total_attempts = answered + failed and active_now = 0.
C39_QuietAfterStop ==
    /\ [][stopPc = "returned" => UNCHANGED <<stats, call, sent>>]_vars
    /\ [](stopPc = "returned" =>
            /\ stats.TotalCalls = stats.SuccessfulCalls + stats.FailedCalls
            /\ stats.ActiveCalls = 0)

\* Stop has returned on an engine that made an answered and a failed attempt.
C39_Witness ==
    /\ stopPc = "returned"
    /\ stats.SuccessfulCalls > 0
    /\ stats.FailedCalls > 0

\* C32: after Stop has closed the socket the receive loop ends: once a read
\* has failed on the closed socket, the loop does not go back to reading.
C32_ReceiveLoopEnds ==
    [][rxPc = "readerr" /\ conn = "closed" /\ rxPc' /= rxPc => rxPc' = "exited"]_vars

\* C38: a Start that follows a Stop brings the tick loop back: with no further
\* Stop, the tick loop it starts does not end.
C38_RestartRuns ==
    [][startCalls > 1 /\ genPc = "loop" /\ UNCHANGED stopCalls => genPc' = "loop"]_vars

\* C34: the peak is kept up on each change of the active count: once the
\* roll-up has created a bucket, every step that raises active_now leaves a
\* bucket (the current hour's is one of them) whose peak_concurrent is at least
\* the new active_now.
C34_PeakTracksActive ==
    [][/\ stats'.ActiveCalls > stats.ActiveCalls
       /\ \E h \in Hours : hourlyStats[h].Hour = h
       => \E h \in Hours : hourlyStats'[h].PeakConcurrent >= stats'.ActiveCalls]_vars

\* C35: a dialog never reads its record (buildBYE, at the end of the hold
\* time) while the receive loop has looked the record up and is writing its
\* status and remote tag.
C35_RecordAccessExclusive ==
    [][\A i \in Calls :
          call[i].pc = "talk" /\ call'[i].pc = "finish" =>
              ~(rxPc = "write" /\ rxCall = i)]_vars

\* A makeCall that has drawn shouldAnswer = false.
DrawnRejected(i) == call[i].pc \notin {"idle", "start"} /\ ~call[i].shouldAnswer

\* C36: a call drawn as not answered sends nothing, takes no RTP port, gets no
\* Call-ID and no index entry; its one counting step is failed + 1, and it ends
\* having added to and taken from active_now once each.
C36_RejectedCallIsLocal ==
    /\ [](\A i \in Calls : DrawnRejected(i) =>
            /\ sent[i] = <<>>
            /\ hist[i].taken = 0
            /\ call[i].SIPCallID = 0
            /\ \A c \in CallIDs : activeCalls[c] /= i
            /\ call[i].pc = "done" =>
                  /\ hist[i].outcome = "failed"
                  /\ hist[i].counted = 1
                  /\ hist[i].uncounted = 1)
    /\ [][\A i \in Calls :
            DrawnRejected(i) /\ call[i].pc = "rejected" /\ call'[i].pc /= "rejected" =>
                /\ stats'.FailedCalls = stats.FailedCalls + 1
                /\ stats'.SuccessfulCalls = stats.SuccessfulCalls
                /\ stats'.TotalCalls = stats.TotalCalls]_vars

\* A rejected call has ended, counted as failed.
C36_Witness ==
    \E i \in Calls :
        /\ DrawnRejected(i)
        /\ call[i].pc = "done"
        /\ hist[i].outcome = "failed"
        /\ stats.FailedCalls > 0

\* C37: for every configuration with acd_min <= acd_max, the edge
\* acd_min = acd_max included, makeCall samples the call duration without
\* crashing, and the sampled duration lies in [acd_min, acd_max].
C37_DurationSampledInRange ==
    /\ ~crashed
    /\ duration.pc /= "panic"
    /\ duration.pc = "sampled" =>
          /\ cfg.ACDMin <= duration.seconds
          /\ duration.seconds <= cfg.ACDMax

\* A set of tasks each of which is in a Lock / RLock call that cannot return
\* and waits only for tasks of the set.
Stuck(D) ==
    /\ D /= {}
    /\ \A t \in D : Waiting(t) /\ ~CanAcquire(t) /\ BlockedBy(t) \subseteq D

\* C40: no set of tasks is deadlocked on g.stats.mu and g.mu, and a task that
\* holds both has taken g.stats.mu first.
C40_NoLockDeadlock ==
    /\ \A D \in SUBSET LockTasks : ~Stuck(D)
    /\ \A t \in LockTasks :
          \A j, k \in DOMAIN held[t] :
              held[t][j].mu = StatsMu /\ held[t][k].mu = GenMu => j < k

\* The controller holds both mutexes while an observer waits for g.stats.mu
\* and a makeCall goroutine waits for g.mu.
C40_Witness ==
    /\ HoldsAs("controller", StatsMu, "w")
    /\ HoldsAs("controller", GenMu, "w")
    /\ Waiting("observer")
    /\ Waiting("call1")

====
